---- MODULE Spec2Model ----
(***************************************************************************)
(* Model of the geofencing admin dashboard's API layer: the users,        *)
(* user_locations and alerts tables and the request handlers that read    *)
(* and write them.  The centre is POST /api/user-location, the zone-      *)
(* transition detection that decides when an alert row is written.        *)
(***************************************************************************)
EXTENDS Integers, Sequences, FiniteSets, TLC

VARIABLES
    users,            \* table users: rows [id, username, password_hash, role, zone_*]
    user_locations,   \* table user_locations: rows [user_id, latitude, longitude, inside_zone]
    alerts,           \* table alerts, in insertion order: rows [id, user_id, alert_type, latitude, longitude]
    response,         \* the response to the last request: [op, status, ignored]
    calls,            \* POST /api/user-location calls in flight, one per request slot
    db0,              \* the tables as they were before the first request
    users_auto_increment,  \* the AUTO_INCREMENT counter of users.id
    loginAttempts,    \* user-login's in-memory Map: rateKey -> [count, lastAttempt]
    now,              \* Date.now(), in milliseconds
    everAccepted,         \* history: the ids for which a report was answered 200, not ignored
    browser,          \* the admin's browser: localStorage, the page, its requests in flight
    attemptLog        \* history: rateKey -> the times of its attempts in the last WINDOW_MS

vars == <<users, user_locations, alerts, response, calls, db0,
          users_auto_increment, loginAttempts, now, everAccepted, browser,
          attemptLog>>

\* The state of the server outside the three tables.
serverVars == <<users_auto_increment, loginAttempts, now>>

\* The alerts table is capped so that the state space is finite.
MaxAlerts == 1

----------------------------------------------------------------------------
(* JSON / JavaScript values as they arrive in a request body.  Every value *)
(* is a record [t, n, s]: its type tag, its numeric content and its string *)
(* content, so that values of different types can be compared.             *)

Undefined == [t |-> "undefined", n |-> 0, s |-> ""]
Null      == [t |-> "null",      n |-> 0, s |-> ""]
Bool(b)   == [t |-> "boolean",   n |-> IF b THEN 1 ELSE 0, s |-> ""]
Num(k)    == [t |-> "number",    n |-> k, s |-> ""]
\* JSON.parse turns a literal that overflows a double, such as 1e999, into
\* the number Infinity.
Infinity  == [t |-> "number",    n |-> 0, s |-> "Infinity"]
Str(x)    == [t |-> "string",    n |-> 0, s |-> x]

\* Number("abc") and the like.
NaN       == [t |-> "number",    n |-> 0, s |-> "NaN"]

\* Number.isFinite
NumberIsFinite(v) == v.t = "number" /\ v.s = ""

\* Number(str) for the strings that arrive as path and query parameters.
ToNumber(str) ==
    CASE str = ""  -> Num(0)
      [] str = "0" -> Num(0)
      [] str = "1" -> Num(1)
      [] str = "2" -> Num(2)
      [] str = "3" -> Num(3)
      [] str = "4" -> Num(4)
      [] str = "9" -> Num(9)
      [] str = " " -> Num(0)
      [] str = " 2 " -> Num(2)
      [] str = "-1" -> Num(-1)
      [] str = "Infinity" -> Infinity
      [] OTHER     -> NaN

\* String.prototype.trim, for the strings that requests carry.
trim(v) ==
    CASE v.s = " user2 " -> [v EXCEPT !.s = "user2"]
      [] v.s = " pass2 " -> [v EXCEPT !.s = "pass2"]
      [] OTHER           -> v

\* For a string, n counts its bcrypt layers: 0 for plain text, 1 for the
\* "$2b$12$..." hash of a plain text.  The salt is not modelled.
bcryptHash(v) == [v EXCEPT !.n = @ + 1]

\* bcrypt.compare(data, encrypted)
bcryptCompare(data, encrypted) == encrypted = bcryptHash(data)

\* stored.startsWith("$2a$") || stored.startsWith("$2b$") || stored.startsWith("$2y$")
looksHashed(stored) == stored.n > 0

\* String.prototype.length; a bcrypt hash has 60 characters.
length(v) == IF v.n > 0 THEN 60 ELSE Len(v.s)

\* JavaScript's typeof: null is an "object".
typeof(v) == IF v.t = "null" THEN "object" ELSE v.t

\* JavaScript's !v : undefined, null, false, 0 and "" are falsy.
Falsy(v) ==
    \/ v.t \in {"undefined", "null"}
    \/ v.t = "boolean" /\ v.n = 0
    \/ v.t = "number"  /\ v.n = 0
    \/ v.t = "string"  /\ v.s = ""

\* JavaScript's v ?? null
OrNull(v) == IF v = Undefined \/ v = Null THEN Null ELSE v

----------------------------------------------------------------------------
(* The database as one value, so that a handler is a function of it.       *)

DB == [users |-> users, user_locations |-> user_locations, alerts |-> alerts]

Resp(op, status, ignored) == [op |-> op, status |-> status, ignored |-> ignored]

----------------------------------------------------------------------------
(* POST /api/user-location                                                 *)

\* 1) Basic validation: userId, latitude and longitude are required.
InvalidBody_NoCoordCheck(userId, latitude, longitude) == Falsy(userId)

InvalidBody(userId, latitude, longitude) ==
    \/ Falsy(userId)
    \/ typeof(latitude) # "number"
    \/ typeof(longitude) # "number"

\* SELECT role FROM users WHERE id = ? LIMIT 1
SelectRole_NoWhere(usersTable, userId) == usersTable

SelectRole(usersTable, userId) ==
    {u \in usersTable : userId.t = "number" /\ u.id = userId.n}

\* userRole === "admin"
IsAdmin_Never(userRole) == FALSE

IsAdmin(userRole) == userRole = "admin"

\* SELECT inside_zone FROM user_locations WHERE user_id = ? LIMIT 1
SelectInsideZone(locTable, userId) ==
    {l \in locTable : l.user_id = userId.n}

\* const prevInside = locRows.length ? locRows[0].inside_zone : null
prevInside_DefaultOutside(locRows) ==
    IF locRows # {} THEN (CHOOSE l \in locRows : TRUE).inside_zone ELSE Num(0)

prevInside(locRows) ==
    IF locRows # {} THEN (CHOOSE l \in locRows : TRUE).inside_zone ELSE Null

\* const hasZoneInfo = insideZone !== null && insideZone !== undefined
hasZoneInfo(insideZone) == insideZone # Null /\ insideZone # Undefined

\* const insideVal = insideZone === true ? 1 : 0
insideVal(insideZone) == IF insideZone = Bool(TRUE) THEN Num(1) ELSE Num(0)

\* hasZoneInfo ? insideVal : null   (the inside_zone parameter of the upsert)
insideZoneParam_Coalesced(has, val) == val

insideZoneParam(has, val) == IF has THEN val ELSE Null

\* INSERT INTO user_locations ... ON DUPLICATE KEY UPDATE ... (user_id is the key)
UpsertLocation_KeepZone(locTable, uid, latitude, longitude, inside_zone) ==
    LET old == {l \in locTable : l.user_id = uid}
        kept == IF inside_zone = Null /\ old # {}
                THEN (CHOOSE l \in old : TRUE).inside_zone
                ELSE inside_zone
    IN  (locTable \ old) \cup
            {[user_id |-> uid, latitude |-> latitude, longitude |-> longitude,
              inside_zone |-> kept]}

UpsertLocation_InsertOnly(locTable, uid, latitude, longitude, inside_zone) ==
    locTable \cup
        {[user_id |-> uid, latitude |-> latitude, longitude |-> longitude,
          inside_zone |-> inside_zone]}

UpsertLocation(locTable, uid, latitude, longitude, inside_zone) ==
    {l \in locTable : l.user_id # uid} \cup
        {[user_id |-> uid, latitude |-> latitude, longitude |-> longitude,
          inside_zone |-> inside_zone]}

\* if (hasZoneInfo && prevInside !== null && prevInside !== insideVal)
TransitionDetected_NoPrevCheck(has, prev, val) == has /\ prev # val

TransitionDetected_NoChangeCheck(has, prev, val) == has /\ prev # Null

TransitionDetected(has, prev, val) == has /\ prev # Null /\ prev # val

\* const alertType = insideVal === 1 ? "enter" : "exit"
alertType_Swapped(val) == IF val = Num(1) THEN "exit" ELSE "enter"

alertType(val) == IF val = Num(1) THEN "enter" ELSE "exit"

\* INSERT INTO alerts (user_id, alert_type, latitude, longitude) VALUES (?, ?, ?, ?)
\* id is the table's auto-increment key; no handler deletes from alerts.
InsertAlert(alertTable, uid, type, latitude, longitude) ==
    Append(alertTable,
           [id |-> Len(alertTable) + 1, user_id |-> uid, alert_type |-> type,
            latitude |-> latitude, longitude |-> longitude])

\* The whole handler: the database and the response it leaves.
PostUserLocation(db, body) ==
    LET userId     == body.userId
        latitude   == body.latitude
        longitude  == body.longitude
        insideZone == body.insideZone
    IN
    IF InvalidBody(userId, latitude, longitude)
    THEN [db |-> db, response |-> Resp("user-location", 400, FALSE)]
    ELSE
    LET roleRows == SelectRole(db.users, userId) IN
    IF roleRows = {}
    THEN [db |-> db, response |-> Resp("user-location", 404, FALSE)]
    ELSE
    LET userRole == (CHOOSE u \in roleRows : TRUE).role IN
    IF IsAdmin(userRole)
    THEN [db |-> db, response |-> Resp("user-location", 200, TRUE)]
    ELSE
    LET locRows == SelectInsideZone(db.user_locations, userId)
        prev    == prevInside(locRows)
        has     == hasZoneInfo(insideZone)
        val     == insideVal(insideZone)
        locs2   == UpsertLocation(db.user_locations, userId.n, latitude,
                                  longitude, insideZoneParam(has, val))
        alerts2 == IF TransitionDetected(has, prev, val)
                   THEN InsertAlert(db.alerts, userId.n, alertType(val),
                                    latitude, longitude)
                   ELSE db.alerts
    IN  [db |-> [users |-> db.users, user_locations |-> locs2, alerts |-> alerts2],
         response |-> Resp("user-location", 200, FALSE)]

----------------------------------------------------------------------------
(* POST /api/alerts                                                        *)

\* if (!userId || !alertType)
MissingAlertField(userId, type) == Falsy(userId) \/ Falsy(type)

\* if (alertType !== "exit" && alertType !== "enter")
InvalidAlertType_Never(type) == FALSE

InvalidAlertType(type) == type # Str("exit") /\ type # Str("enter")

PostAlerts(db, body) ==
    LET userId    == body.userId
        type      == body.alertType
        latitude  == body.latitude
        longitude == body.longitude
    IN
    IF MissingAlertField(userId, type)
    THEN [db |-> db, response |-> Resp("alerts", 400, FALSE)]
    ELSE
    IF InvalidAlertType(type)
    THEN [db |-> db, response |-> Resp("alerts", 400, FALSE)]
    ELSE [db |-> [users |-> db.users, user_locations |-> db.user_locations,
                  alerts |-> InsertAlert(db.alerts, userId.n, type.s,
                                         OrNull(latitude), OrNull(longitude))],
          response |-> Resp("alerts", 200, FALSE)]

----------------------------------------------------------------------------
(* POST /api/users                                                         *)
(* The columns first_name, last_name and email are validated but not kept  *)
(* in the model's rows.                                                    *)

\* if (!first_name || !last_name || !username || !email || !password)
MissingUserField(body) ==
    \/ Falsy(body.first_name) \/ Falsy(body.last_name) \/ Falsy(body.username)
    \/ Falsy(body.email) \/ Falsy(body.password)

InvalidUserDetails(body) ==
    \/ length(trim(body.first_name)) < 2
    \/ length(trim(body.last_name)) < 2
    \/ length(trim(body.username)) < 3
    \/ length(trim(body.password)) < 4

\* The row of INSERT INTO users (..., password_hash, role) VALUES (..., ?, "user")
NewUserRow_RoleFromBody(id, body) ==
    [id |-> id, username |-> trim(body.username).s,
     password_hash |-> bcryptHash(trim(body.password)),
     role |-> IF body.role.t = "string" THEN body.role.s ELSE "user",
     zone_center_lat |-> Null, zone_center_lng |-> Null, zone_radius_m |-> Null]

NewUserRow(id, body) ==
    [id |-> id, username |-> trim(body.username).s,
     password_hash |-> bcryptHash(trim(body.password)),
     role |-> "user",
     zone_center_lat |-> Null, zone_center_lng |-> Null, zone_radius_m |-> Null]

\* INSERT INTO users writes the users table only.
InsertUser_WithLocation(db, row) ==
    [db EXCEPT !.users = @ \cup {row},
               !.user_locations = @ \cup {[user_id |-> row.id, latitude |-> Null,
                                            longitude |-> Null, inside_zone |-> Null]}]

InsertUser(db, row) == [db EXCEPT !.users = @ \cup {row}]

\* The unique index on username answers ER_DUP_ENTRY.
DuplicateUser(db, body) == \E u \in db.users : u.username = trim(body.username).s

PostUsers(db, autoInc, body, queryFails) ==
    IF MissingUserField(body)
    THEN [db |-> db, autoInc |-> autoInc, response |-> Resp("users-post", 400, FALSE)]
    ELSE
    IF InvalidUserDetails(body)
    THEN [db |-> db, autoInc |-> autoInc, response |-> Resp("users-post", 400, FALSE)]
    ELSE
    IF queryFails \/ DuplicateUser(db, body)
    THEN [db |-> db, autoInc |-> autoInc, response |-> Resp("users-post", 500, FALSE)]
    ELSE [db |-> InsertUser(db, NewUserRow(autoInc, body)),
          autoInc |-> autoInc + 1,
          response |-> Resp("users-post", 200, FALSE)]

----------------------------------------------------------------------------
(* PUT /api/users/:id and DELETE /api/users/:id                            *)

\* if (!Number.isFinite(id) || id <= 0)
InvalidUserId(id) == ~NumberIsFinite(id) \/ id.n <= 0

ZoneFields == {"zone_center_lat", "zone_center_lng", "zone_radius_m"}

\* The fields pushed for the UPDATE: those that are not undefined.
UpdatedFields_NotNull(body) ==
    {f \in ZoneFields : body[f] # Undefined /\ body[f] # Null}

UpdatedFields(body) == {f \in ZoneFields : body[f] # Undefined}

\* UPDATE users SET <fields> WHERE id = ?
UpdateUser(db, id, body) ==
    [db EXCEPT !.users =
        {IF u.id = id
         THEN [f \in DOMAIN u |-> IF f \in UpdatedFields(body) THEN body[f] ELSE u[f]]
         ELSE u : u \in @}]

PutUser(db, idStr, body, queryFails) ==
    LET id == ToNumber(idStr) IN
    IF InvalidUserId(id)
    THEN [db |-> db, response |-> Resp("users-put", 400, FALSE)]
    ELSE
    IF UpdatedFields(body) = {}
    THEN [db |-> db, response |-> Resp("users-put", 400, FALSE)]
    ELSE
    IF queryFails
    THEN [db |-> db, response |-> Resp("users-put", 500, FALSE)]
    ELSE [db |-> UpdateUser(db, id.n, body),
          response |-> Resp("users-put", 200, FALSE)]

\* DELETE FROM users WHERE id = ?  The statement names the users table
\* only; the other tables keep their rows.
DeleteUserRow_WithAlerts(db, id) ==
    [db EXCEPT !.users = {u \in @ : u.id # id},
               !.alerts = SelectSeq(@, LAMBDA a : a.user_id # id)]

DeleteUserRow(db, id) == [db EXCEPT !.users = {u \in @ : u.id # id}]

DeleteUser(db, idStr, queryFails) ==
    LET id == ToNumber(idStr) IN
    IF InvalidUserId(id)
    THEN [db |-> db, response |-> Resp("users-delete", 400, FALSE)]
    ELSE
    IF queryFails
    THEN [db |-> db, response |-> Resp("users-delete", 500, FALSE)]
    ELSE [db |-> DeleteUserRow(db, id.n),
          response |-> Resp("users-delete", 200, FALSE)]

----------------------------------------------------------------------------
(* POST /api/login and POST /api/user-login                                *)

\* if (!username || !password)
MissingCredentials(body) == Falsy(body.username) \/ Falsy(body.password)

\* if (trimmedUsername.length < 3 || trimmedPassword.length < 4)
InvalidCredentials(body) ==
    length(trim(body.username)) < 3 \/ length(trim(body.password)) < 4

\* SELECT * FROM users WHERE username = ? AND role = <role> LIMIT 1
SelectUser_AnyRole(userTable, username, role) ==
    {u \in userTable : u.username = username.s}

SelectUser(userTable, username, role) ==
    {u \in userTable : u.username = username.s /\ u.role = role}

\* UPDATE users SET password_hash = ? WHERE id = ?
SetPasswordHash(db, id, newHash) ==
    [db EXCEPT !.users =
        {IF u.id = id THEN [u EXCEPT !.password_hash = newHash] ELSE u : u \in @}]

\* failing names the query that rejects: "none", "select" or "update".
PostLogin(db, body, failing) ==
    IF MissingCredentials(body)
    THEN [db |-> db, response |-> Resp("login", 400, FALSE)]
    ELSE
    IF InvalidCredentials(body)
    THEN [db |-> db, response |-> Resp("login", 400, FALSE)]
    ELSE
    IF failing = "select"
    THEN [db |-> db, response |-> Resp("login", 500, FALSE)]
    ELSE
    LET trimmedPassword == trim(body.password)
        rows == SelectUser(db.users, trim(body.username), "admin")
    IN
    IF rows = {}
    THEN [db |-> db, response |-> Resp("login", 401, FALSE)]
    ELSE
    LET admin  == CHOOSE u \in rows : TRUE
        stored == admin.password_hash
    IN
    IF ~looksHashed(stored)
    THEN IF stored = trimmedPassword
         THEN \* the migration sits in its own try/catch
              [db |-> IF failing = "update" THEN db
                      ELSE SetPasswordHash(db, admin.id, bcryptHash(trimmedPassword)),
               response |-> Resp("login", 200, FALSE)]
         ELSE [db |-> db, response |-> Resp("login", 401, FALSE)]
    ELSE IF bcryptCompare(trimmedPassword, stored)
         THEN [db |-> db, response |-> Resp("login", 200, FALSE)]
         ELSE [db |-> db, response |-> Resp("login", 401, FALSE)]

MAX_ATTEMPTS == 10
WINDOW_MS == 10 * 60 * 1000

\* const rateKey = `user:${ip}:${trimmedUsername}`
RateKey(ip, username) == <<"user", ip, username.s>>

isRateLimited_AtMax(attempts, key, t) ==
    IF key \notin DOMAIN attempts
    THEN [limited |-> FALSE,
          attempts |-> [k \in DOMAIN attempts \cup {key} |->
                           IF k = key THEN [count |-> 1, lastAttempt |-> t]
                           ELSE attempts[k]]]
    ELSE
    IF t - attempts[key].lastAttempt > WINDOW_MS
    THEN [limited |-> FALSE,
          attempts |-> [attempts EXCEPT ![key] = [count |-> 1, lastAttempt |-> t]]]
    ELSE [limited |-> attempts[key].count + 1 >= MAX_ATTEMPTS,
          attempts |-> [attempts EXCEPT ![key] =
                           [count |-> @.count + 1, lastAttempt |-> t]]]

\* isRateLimited(key) at time t: the answer and the Map it leaves.
isRateLimited(attempts, key, t) ==
    IF key \notin DOMAIN attempts
    THEN [limited |-> FALSE,
          attempts |-> [k \in DOMAIN attempts \cup {key} |->
                           IF k = key THEN [count |-> 1, lastAttempt |-> t]
                           ELSE attempts[k]]]
    ELSE
    IF t - attempts[key].lastAttempt > WINDOW_MS
    THEN [limited |-> FALSE,
          attempts |-> [attempts EXCEPT ![key] = [count |-> 1, lastAttempt |-> t]]]
    ELSE [limited |-> attempts[key].count + 1 > MAX_ATTEMPTS,
          attempts |-> [attempts EXCEPT ![key] =
                           [count |-> @.count + 1, lastAttempt |-> t]]]

PostUserLogin(db, attempts, t, ip, body, failing) ==
    IF MissingCredentials(body)
    THEN [db |-> db, attempts |-> attempts, response |-> Resp("user-login", 400, FALSE)]
    ELSE
    IF InvalidCredentials(body)
    THEN [db |-> db, attempts |-> attempts, response |-> Resp("user-login", 400, FALSE)]
    ELSE
    LET trimmedPassword == trim(body.password)
        limit == isRateLimited(attempts, RateKey(ip, trim(body.username)), t)
    IN
    IF limit.limited
    THEN [db |-> db, attempts |-> limit.attempts,
          response |-> Resp("user-login", 429, FALSE)]
    ELSE
    IF failing = "select"
    THEN [db |-> db, attempts |-> limit.attempts,
          response |-> Resp("user-login", 500, FALSE)]
    ELSE
    LET rows == SelectUser(db.users, trim(body.username), "user") IN
    IF rows = {}
    THEN [db |-> db, attempts |-> limit.attempts,
          response |-> Resp("user-login", 401, FALSE)]
    ELSE
    LET user == CHOOSE u \in rows : TRUE IN
    IF user.password_hash = trimmedPassword
    THEN IF failing = "update"
         THEN [db |-> db, attempts |-> limit.attempts,
               response |-> Resp("user-login", 500, FALSE)]
         ELSE [db |-> SetPasswordHash(db, user.id, bcryptHash(trimmedPassword)),
               attempts |-> limit.attempts,
               response |-> Resp("user-login", 200, FALSE)]
    ELSE IF bcryptCompare(trimmedPassword, user.password_hash)
         THEN [db |-> db, attempts |-> limit.attempts,
               response |-> Resp("user-login", 200, FALSE)]
         ELSE [db |-> db, attempts |-> limit.attempts,
               response |-> Resp("user-login", 401, FALSE)]

----------------------------------------------------------------------------
(* GET /api/alerts                                                         *)

\* The rows of SELECT a.*, u.username FROM alerts a JOIN users u ... WHERE
\* u.role <> 'admin' [AND a.user_id = ?].  userIdParam is Null when the
\* query has no userId, else the string it carries.
SelectAlerts(db, userIdParam) ==
    LET filtered == ~Falsy(userIdParam) /\ ToNumber(userIdParam.s) # NaN IN
    SelectSeq(db.alerts,
              LAMBDA a :
                  /\ \E u \in db.users : u.id = a.user_id /\ u.role # "admin"
                  /\ filtered => a.user_id = ToNumber(userIdParam.s).n)

GetAlerts(db, userIdParam, queryFails) ==
    IF queryFails
    THEN [db |-> db, rows |-> <<>>, response |-> Resp("alerts-get", 500, FALSE)]
    ELSE [db |-> db, rows |-> SelectAlerts(db, userIdParam),
          response |-> Resp("alerts-get", 200, FALSE)]

----------------------------------------------------------------------------
(* Request bodies *)

UserIdInputs == {Undefined, Num(0), Num(-1), Num(1), Num(2), Num(3), Num(4)}
LatitudeInputs == {Undefined, Str("10.5"), Num(10), Num(11)}
LongitudeInputs == {Null, Num(20)}
InsideZoneInputs == {Undefined, Null, Bool(TRUE), Bool(FALSE)}

LocationBodies ==
    [userId     : UserIdInputs,
     latitude   : LatitudeInputs,
     longitude  : LongitudeInputs,
     insideZone : InsideZoneInputs]

\* Bodies with every kind of missing or non-numeric coordinate.
CoordinateBodies ==
    [userId     : UserIdInputs,
     latitude   : LatitudeInputs \cup {Null},
     longitude  : LongitudeInputs \cup {Undefined, Str("x")},
     insideZone : InsideZoneInputs]

AlertBodies ==
    [userId    : {Undefined, Num(1), Num(2)},
     alertType : {Undefined, Str("enter"), Str("exit"), Str("other")},
     latitude  : {Num(10)},
     longitude : {Undefined}]

----------------------------------------------------------------------------
(* The admin's browser: src/app/page.tsx (login) and
   src/app/dashboard/page.tsx.  localStorage outlives page loads; the
   component state (the displayed alerts) and the requests in flight do not. *)

\* fetchAlerts runs on mount and every 3 s: two calls may be in flight.
PollSlots == {"p1", "p2"}

IdleRequest == [pc |-> "idle", status |-> 0, data |-> <<>>]

\* localStorage before the first login, on the login page.
FirstVisit ==
    [page |-> "/", mounting |-> FALSE,
     adminAuth |-> Null, clearedUntil |-> Null,
     alerts |-> <<>>,
     polls |-> [p \in PollSlots |-> IdleRequest],
     login |-> IdleRequest, logout |-> IdleRequest]

\* new Date().toISOString(), and new Date(string).getTime(): an ISO string
\* carries the milliseconds; any other string is an Invalid Date.
toISOString(ms) == [t |-> "string", n |-> 0, s |-> "ISO", iso |-> ms]
getTime(str) == IF "iso" \in DOMAIN str THEN Num(str.iso) ELSE NaN

\* a > b on two dates: false when either is an Invalid Date.
After_Inclusive(a, b) == a.t = "number" /\ b.t = "number" /\ a.n >= b.n
After(a, b) == a.t = "number" /\ b.t = "number" /\ a.n > b.n

\* occurred_at of a new alert row is the server's clock.
Stamped(alertTable, t) ==
    [i \in DOMAIN alertTable |->
        IF "occurred_at" \in DOMAIN alertTable[i]
        THEN alertTable[i]
        ELSE alertTable[i] @@ ("occurred_at" :> t)]

\* NextResponse.json(rows): a timestamp goes out as an ISO string.
AlertsJson(rows) ==
    [i \in DOMAIN rows |-> [rows[i] EXCEPT !.occurred_at = toISOString(@)]]

\* fetchAlerts: the alerts after localStorage["alerts-cleared-until"].
Filtered(data, clearedUntilStr) ==
    IF Falsy(clearedUntilStr)
    THEN data
    ELSE SelectSeq(data, LAMBDA a : After(getTime(a.occurred_at),
                                          getTime(clearedUntilStr)))

\* filtered.sort(newest first), stable.
RECURSIVE sorted(_)
sorted(seq) ==
    IF seq = <<>>
    THEN <<>>
    ELSE LET i == CHOOSE i \in 1..Len(seq) :
                     /\ \A j \in 1..Len(seq) :
                            getTime(seq[j].occurred_at).n <= getTime(seq[i].occurred_at).n
                     /\ \A j \in 1..(i - 1) :
                            getTime(seq[j].occurred_at).n < getTime(seq[i].occurred_at).n
             rest == [k \in 1..(Len(seq) - 1) |-> IF k < i THEN seq[k] ELSE seq[k + 1]]
         IN <<seq[i]>> \o sorted(rest)

\* sorted.slice(0, 15)
SliceLimit == 15
slice(seq) == SubSeq(seq, 1, IF Len(seq) < SliceLimit THEN Len(seq) ELSE SliceLimit)

\* handleSubmit: the answer that lets the admin in: res.ok and data.success;
\* POST /api/login sends success: true with status 200 and with no other.
LoginAccepted_Always(status) == TRUE
LoginAccepted(status) == status = 200

\* Leaving the dashboard unmounts it: its interval is cleared, and what a
\* request still in flight sets afterwards is displayed nowhere.
Unmounted(b) ==
    [b EXCEPT !.alerts = <<>>, !.mounting = FALSE,
              !.polls = [p \in PollSlots |-> IdleRequest]]

\* /dashboard mounts: fresh component state, effects pending.
Mounted(b) ==
    [Unmounted(b) EXCEPT !.page = "/dashboard", !.mounting = TRUE]

----------------------------------------------------------------------------
(* The state machine *)

\* The request slots of the Node.js runtime: two requests can be in flight.
Procs == {"r1", "r2"}

\* A slot that has received no request.
IdleCall ==
    [pc |-> "idle",
     body |-> [userId |-> Undefined, latitude |-> Undefined,
               longitude |-> Undefined, insideZone |-> Undefined],
     prevInside |-> Null, upserted |-> FALSE, alerted |-> FALSE,
     failedAt |-> "none", response |-> Resp("none", 0, FALSE)]

\* A database with one admin and two tracked users; no id 4.
\* Users 1 and 2 still have a legacy plain-text password; user 3 has a
\* bcrypt hash.  No zone is assigned yet.
UserRow(id, username, password_hash, role) ==
    [id |-> id, username |-> username, password_hash |-> password_hash,
     role |-> role, zone_center_lat |-> Null, zone_center_lng |-> Null,
     zone_radius_m |-> Null]

InitialUsers ==
    {UserRow(1, "admin", Str("adminpw"), "admin"),
     UserRow(2, "user2", Str("pass2"), "user"),
     UserRow(3, "user3", bcryptHash(Str("pass3")), "user")}

\* The next value of users.id
FirstFreeId == 4

Init ==
    /\ users = InitialUsers
    /\ user_locations = {}
    /\ alerts = <<>>
    /\ response = Resp("none", 0, FALSE)
    /\ calls = [p \in Procs |-> IdleCall]
    /\ db0 = DB
    /\ users_auto_increment = FirstFreeId
    /\ loginAttempts = <<>>
    /\ now = 0
    /\ browser = FirstVisit
    /\ attemptLog = <<>>
    /\ everAccepted = {l.user_id : l \in user_locations}

Commit(res) ==
    /\ Len(res.db.alerts) <= MaxAlerts
    /\ users' = res.db.users
    /\ user_locations' = res.db.user_locations
    /\ alerts' = res.db.alerts
    /\ response' = res.response
    /\ UNCHANGED <<calls, db0, browser>>

\* A report is accepted when it is answered 200 without the ignored flag.
Accept(res, uid) ==
    IF res.response = Resp("user-location", 200, FALSE)
    THEN everAccepted \cup {uid.n}
    ELSE everAccepted

ReportLocationFrom(bodies) ==
    \E body \in bodies :
        LET res == PostUserLocation(DB, body) IN
        /\ Commit(res)
        /\ everAccepted' = Accept(res, body.userId)
        /\ UNCHANGED <<serverVars, attemptLog>>

ReportLocation == ReportLocationFrom(LocationBodies)

CreateAlertFrom(bodies) ==
    \E body \in bodies :
        /\ Commit(PostAlerts(DB, body))
        /\ UNCHANGED <<serverVars, everAccepted, attemptLog>>

CreateAlert == CreateAlertFrom(AlertBodies)

Next == ReportLocation \/ CreateAlert

Spec == Init /\ [][Next]_vars

----------------------------------------------------------------------------
(* POST /api/user-location, one database query at a time.  Between two     *)
(* awaits the handler runs alone; at each await another request can run,   *)
(* and each query can fail, which throws into the handler's catch block.   *)

\* catch (err) { return NextResponse.json({message: ...}, {status: 500}) }
ErrorResponse_Success == Resp("user-location", 200, FALSE)

ErrorResponse == Resp("user-location", 500, FALSE)

Finish(c, resp) == [c EXCEPT !.pc = "done", !.response = resp]

\* await req.json() and the validation that follows it.
Receive(p, body) ==
    /\ calls[p].pc = "idle"
    /\ calls' = [calls EXCEPT ![p] =
          IF InvalidBody(body.userId, body.latitude, body.longitude)
          THEN Finish([@ EXCEPT !.body = body], Resp("user-location", 400, FALSE))
          ELSE [@ EXCEPT !.body = body, !.pc = "role"]]
    /\ UNCHANGED <<users, user_locations, alerts, response, db0, serverVars, browser, everAccepted, attemptLog>>

\* await db.query("SELECT role FROM users WHERE id = ? LIMIT 1")
QueryRole(p) ==
    /\ calls[p].pc = "role"
    /\ LET roleRows == SelectRole(users, calls[p].body.userId) IN
       calls' = [calls EXCEPT ![p] =
          IF roleRows = {}
          THEN Finish(@, Resp("user-location", 404, FALSE))
          ELSE IF IsAdmin((CHOOSE u \in roleRows : TRUE).role)
          THEN Finish(@, Resp("user-location", 200, TRUE))
          ELSE [@ EXCEPT !.pc = "prev"]]
    /\ UNCHANGED <<users, user_locations, alerts, response, db0, serverVars, browser, everAccepted, attemptLog>>

\* await db.query("SELECT inside_zone FROM user_locations WHERE user_id = ? LIMIT 1")
QueryPrev(p) ==
    /\ calls[p].pc = "prev"
    /\ calls' = [calls EXCEPT ![p] =
          [@ EXCEPT !.pc = "upsert",
                    !.prevInside = prevInside(
                        SelectInsideZone(user_locations, calls[p].body.userId))]]
    /\ UNCHANGED <<users, user_locations, alerts, response, db0, serverVars, browser, everAccepted, attemptLog>>

\* await db.query("INSERT INTO user_locations ... ON DUPLICATE KEY UPDATE ...")
\* A non-finite coordinate is either refused by the database (StorageFailure)
\* or stored as it is, depending on the driver and the column type.
Upsert(p) ==
    /\ calls[p].pc = "upsert"
    /\ LET body == calls[p].body
           has  == hasZoneInfo(body.insideZone)
           val  == insideVal(body.insideZone)
       IN  /\ user_locations' =
                 UpsertLocation(user_locations, body.userId.n, body.latitude,
                                body.longitude, insideZoneParam(has, val))
           /\ calls' = [calls EXCEPT ![p] =
                 IF TransitionDetected(has, calls[p].prevInside, val)
                 THEN [@ EXCEPT !.upserted = TRUE, !.pc = "alert"]
                 ELSE Finish([@ EXCEPT !.upserted = TRUE],
                             Resp("user-location", 200, FALSE))]
           /\ everAccepted' = IF TransitionDetected(has, calls[p].prevInside, val)
                          THEN everAccepted
                          ELSE everAccepted \cup {body.userId.n}
    /\ UNCHANGED <<users, alerts, response, db0, serverVars, browser, attemptLog>>

\* await db.query("INSERT INTO alerts ...")
InsertAlertRow(p) ==
    /\ calls[p].pc = "alert"
    /\ LET body == calls[p].body IN
       alerts' = InsertAlert(alerts, body.userId.n,
                             alertType(insideVal(body.insideZone)),
                             body.latitude, body.longitude)
    /\ calls' = [calls EXCEPT ![p] =
          Finish([@ EXCEPT !.alerted = TRUE], Resp("user-location", 200, FALSE))]
    /\ everAccepted' = everAccepted \cup {calls[p].body.userId.n}
    /\ UNCHANGED <<users, user_locations, response, db0, serverVars, browser, attemptLog>>

\* Any of the four queries rejects: control goes to the catch block.
StorageFailure(p) ==
    /\ calls[p].pc \in {"role", "prev", "upsert", "alert"}
    /\ calls' = [calls EXCEPT ![p] =
          Finish([@ EXCEPT !.failedAt = calls[p].pc], ErrorResponse)]
    /\ UNCHANGED <<users, user_locations, alerts, response, db0, serverVars, browser, everAccepted, attemptLog>>

StepBodies ==
    [userId     : {Undefined, Num(0), Num(-1), Num(1), Num(2), Num(4)},
     latitude   : {Undefined, Num(11), Infinity},
     longitude  : {Num(20)},
     insideZone : {Null, Bool(TRUE), Bool(FALSE)}]

\* The tables when the two requests arrive: user 2 has reported before, or not.
InitSteps ==
    /\ users = InitialUsers
    /\ user_locations \in
          {{},
           {[user_id |-> 2, latitude |-> Num(10), longitude |-> Num(20),
             inside_zone |-> Num(1)]},
           {[user_id |-> 2, latitude |-> Num(10), longitude |-> Num(20),
             inside_zone |-> Num(0)]}}
    /\ alerts = <<>>
    /\ response = Resp("none", 0, FALSE)
    /\ calls = [p \in Procs |-> IdleCall]
    /\ db0 = DB
    /\ users_auto_increment = FirstFreeId
    /\ loginAttempts = <<>>
    /\ now = 0
    /\ browser = FirstVisit
    /\ attemptLog = <<>>
    /\ everAccepted = {l.user_id : l \in user_locations}

NextSteps ==
    \E p \in Procs :
        \/ \E body \in StepBodies : Receive(p, body)
        \/ QueryRole(p)
        \/ QueryPrev(p)
        \/ Upsert(p)
        \/ InsertAlertRow(p)
        \/ StorageFailure(p)

SpecSteps == InitSteps /\ [][NextSteps]_vars

----------------------------------------------------------------------------
(* The whole API, one request at a time: every handler that writes or      *)
(* reads the tables, each as one atomic step.                              *)

\* users.id is capped so that the state space is finite.
MaxUserId == 4

\* The count of one rate key is capped so that the state space is finite.
MaxLoginCount == 1

ApiLocationBodies ==
    [userId     : {Num(1), Num(2), Num(4)},
     latitude   : {Num(10)},
     longitude  : {Num(20)},
     insideZone : {Bool(TRUE), Bool(FALSE)}]

ApiAlertBodies ==
    [userId    : {Num(2)},
     alertType : {Str("enter"), Str("other")},
     latitude  : {Num(10)},
     longitude : {Undefined}]

UserBodies ==
    [first_name : {Str("Ann")},
     last_name  : {Str("Lee")},
     username   : {Str("user2"), Str("user4")},
     email      : {Str("ann@example.org")},
     password   : {Undefined, Str("pass4")},
     role       : {Undefined, Str("admin")}]

ZoneBodies ==
    [zone_center_lat : {Undefined, Num(10)},
     zone_center_lng : {Undefined},
     zone_radius_m   : {Undefined, Null}]

LoginBodies ==
    [username : {Str("admin"), Str("user2")},
     password : {Str("adminpw"), Str("pass2")}]

UserLoginBodies ==
    [username : {Str("user2")},
     password : {Undefined, Str("adminpw"), Str("pass2")}]

Failing == {"none", "select", "update"}

\* POST /api/users
CreateUser ==
    \E body \in UserBodies, queryFails \in BOOLEAN :
        LET res == PostUsers(DB, users_auto_increment, body, queryFails) IN
        /\ users_auto_increment <= MaxUserId
        /\ Commit(res)
        /\ users_auto_increment' = res.autoInc
        /\ UNCHANGED <<loginAttempts, now, everAccepted, attemptLog>>

\* PUT /api/users/:id
UpdateZone ==
    \E idStr \in {"0", "2"}, body \in ZoneBodies, queryFails \in BOOLEAN :
        /\ Commit(PutUser(DB, idStr, body, queryFails))
        /\ UNCHANGED <<serverVars, everAccepted, attemptLog>>

\* DELETE /api/users/:id
RemoveUser ==
    \E idStr \in {"0", "1", "2"}, queryFails \in BOOLEAN :
        /\ Commit(DeleteUser(DB, idStr, queryFails))
        /\ UNCHANGED <<serverVars, everAccepted, attemptLog>>

\* POST /api/login
AdminLogin ==
    \E body \in LoginBodies, failing \in Failing :
        /\ Commit(PostLogin(DB, body, failing))
        /\ UNCHANGED <<serverVars, everAccepted, attemptLog>>

\* The attempts of key in the WINDOW_MS up to t, with the one at t added.
Logged(log, key, t) ==
    LET before == IF key \in DOMAIN log THEN log[key] ELSE <<>> IN
    [k \in DOMAIN log \cup {key} |->
        IF k = key
        THEN Append(SelectSeq(before, LAMBDA x : t - x <= WINDOW_MS), t)
        ELSE log[k]]

\* POST /api/user-login, from a client without an x-forwarded-for header;
\* a request that reaches isRateLimited is an attempt.
UserLoginFrom(bodies, failings, maxCount) ==
    \E body \in bodies, failing \in failings :
        LET res == PostUserLogin(DB, loginAttempts, now, "unknown", body, failing) IN
        /\ \A k \in DOMAIN res.attempts : res.attempts[k].count <= maxCount
        /\ Commit(res)
        /\ loginAttempts' = res.attempts
        /\ attemptLog' = IF MissingCredentials(body) \/ InvalidCredentials(body)
                         THEN attemptLog
                         ELSE Logged(attemptLog,
                                     RateKey("unknown", trim(body.username)), now)
        /\ UNCHANGED <<users_auto_increment, now, everAccepted>>

UserLogin == UserLoginFrom(UserLoginBodies, Failing, MaxLoginCount)

\* GET /api/alerts
ListAlerts ==
    \E userIdParam \in {Null, Str("2")}, queryFails \in BOOLEAN :
        /\ Commit(GetAlerts(DB, userIdParam, queryFails))
        /\ UNCHANGED <<serverVars, everAccepted, attemptLog>>

NextApi ==
    \/ ReportLocationFrom(ApiLocationBodies)
    \/ CreateAlertFrom(ApiAlertBodies)
    \/ CreateUser
    \/ UpdateZone
    \/ RemoveUser
    \/ AdminLogin
    \/ UserLogin
    \/ ListAlerts

SpecApi == Init /\ [][NextApi]_vars

----------------------------------------------------------------------------
(* Vocabulary of the properties: the specification's terms, stated on the  *)
(* tables and the request body independently of the handler's own code.    *)

Report(body) == PostUserLocation(DB, body)

\* The request carries a usable user id and two numeric coordinates.
WellFormed(body) ==
    /\ body.userId.t = "number" /\ body.userId.n # 0
    /\ body.latitude.t = "number"
    /\ body.longitude.t = "number"

Entity(uid)      == \E u \in users : u.id = uid
AdminEntity(uid) == \E u \in users : u.id = uid /\ u.role = "admin"
NonAdminEntity(uid) == \E u \in users : u.id = uid /\ u.role # "admin"

\* The tri-state insideZone of an entity's Location State in a table.
Stored(locTable, uid) ==
    IF \E l \in locTable : l.user_id = uid /\ l.inside_zone = Num(1) THEN "true"
    ELSE IF \E l \in locTable : l.user_id = uid /\ l.inside_zone = Num(0) THEN "false"
    ELSE "unknown"

HasState(locTable, uid) == \E l \in locTable : l.user_id = uid

\* The tri-state insideZone hint of a request.
Hint(body) ==
    IF body.insideZone = Bool(TRUE) THEN "true"
    ELSE IF body.insideZone = Bool(FALSE) THEN "false"
    ELSE "absent"

\* The call appended exactly one alert to the alerts it found.
OneAlertAdded(before, after) ==
    /\ Len(after) = Len(before) + 1
    /\ SubSeq(after, 1, Len(before)) = before

\* The alert is of the given kind and carries the request's user and coordinates.
AlertOf(a, body, kind) ==
    /\ a.user_id = body.userId.n
    /\ a.alert_type = kind
    /\ a.latitude = body.latitude
    /\ a.longitude = body.longitude

IsTransition(body) ==
    /\ Hint(body) # "absent"
    /\ Stored(user_locations, body.userId.n) # "unknown"
    /\ Hint(body) # Stored(user_locations, body.userId.n)

----------------------------------------------------------------------------
\* C1: an accepted report on a non-admin entity creates an alert if and only
\* if the hint is definite, the stored insideZone before the call is definite
\* and the two differ; in every other case (also a rejected or ignored call)
\* the alerts are left as they were.
C1_AlertIffTransition ==
    \A body \in LocationBodies :
        LET res == Report(body)
            accepted == WellFormed(body) /\ NonAdminEntity(body.userId.n)
        IN  /\ accepted => res.response.status = 200
            /\ (accepted /\ IsTransition(body))
                   => OneAlertAdded(alerts, res.db.alerts)
            /\ ~(accepted /\ IsTransition(body))
                   => res.db.alerts = alerts

C1_Witness ==
    /\ response = Resp("user-location", 200, FALSE)
    /\ \E b1, b2 \in LocationBodies :
          /\ b1.userId = b2.userId
          /\ WellFormed(b1) /\ WellFormed(b2)
          /\ IsTransition(b1) /\ ~IsTransition(b2)
          /\ OneAlertAdded(alerts, Report(b1).db.alerts)
          /\ Report(b2).db.alerts = alerts

\* C2: with a stored insideZone of true, a report with hint false creates
\* exactly one alert, of kind exit, with the report's userId, latitude and
\* longitude; with false stored and hint true, exactly one of kind enter.
C2_ExitAndEnter ==
    \A body \in LocationBodies :
        LET res == Report(body)
            uid == body.userId.n
            was == Stored(user_locations, uid)
        IN  (WellFormed(body) /\ NonAdminEntity(uid)) =>
              /\ (was = "true" /\ Hint(body) = "false") =>
                    /\ OneAlertAdded(alerts, res.db.alerts)
                    /\ AlertOf(res.db.alerts[Len(res.db.alerts)], body, "exit")
              /\ (was = "false" /\ Hint(body) = "true") =>
                    /\ OneAlertAdded(alerts, res.db.alerts)
                    /\ AlertOf(res.db.alerts[Len(res.db.alerts)], body, "enter")

\* A state left by a report that crossed the zone border: the newest alert
\* is that user's, of the kind and at the coordinates of its Location State.
C2_Witness ==
    /\ response = Resp("user-location", 200, FALSE)
    /\ alerts # <<>>
    /\ \E l \in user_locations :
          LET a == alerts[Len(alerts)] IN
          /\ a.user_id = l.user_id
          /\ a.latitude = l.latitude /\ a.longitude = l.longitude
          /\ a.alert_type = "exit" /\ l.inside_zone = Num(0)

\* C3: the first report of an entity that has no Location State creates no
\* alert, whatever its hint.
C3_FirstReportSilent ==
    \A body \in LocationBodies :
        LET res == Report(body)
            uid == body.userId.n
        IN  (WellFormed(body) /\ NonAdminEntity(uid)
               /\ ~HasState(user_locations, uid)) =>
              /\ res.db.alerts = alerts
              /\ HasState(res.db.user_locations, uid)

\* A first report with a definite hint has just been stored for one entity
\* while another entity still has no Location State.
C3_Witness ==
    /\ response = Resp("user-location", 200, FALSE)
    /\ alerts = <<>>
    /\ Cardinality(user_locations) = 1
    /\ \E l \in user_locations : l.inside_zone = Num(0)
    /\ \E body \in LocationBodies :
          /\ WellFormed(body) /\ NonAdminEntity(body.userId.n)
          /\ ~HasState(user_locations, body.userId.n)
          /\ Hint(body) = "true"

\* C4: a report without a hint (null or undefined) creates no alert whatever
\* is stored, and what it stores as insideZone is unknown (NULL), not false.
C4_NoHintNoAlert ==
    \A body \in LocationBodies :
        LET res == Report(body)
            uid == body.userId.n
        IN  Hint(body) = "absent" =>
              /\ res.db.alerts = alerts
              /\ (WellFormed(body) /\ NonAdminEntity(uid)) =>
                    /\ HasState(res.db.user_locations, uid)
                    /\ \A l \in res.db.user_locations :
                          l.user_id = uid => l.inside_zone = Null

\* An entity that had crossed the border (its alert is stored) has since
\* reported without a hint: its Location State is unknown.
C4_Witness ==
    /\ response = Resp("user-location", 200, FALSE)
    /\ \E l \in user_locations :
          /\ l.inside_zone = Null
          /\ \E i \in DOMAIN alerts :
                /\ alerts[i].user_id = l.user_id
                /\ alerts[i].longitude # Null

\* C5: with a definite stored insideZone S, a report with hint S creates no
\* alert.
C5_SameStateSilent ==
    \A body \in LocationBodies :
        LET res == Report(body)
            uid == body.userId.n
            was == Stored(user_locations, uid)
        IN  (was # "unknown" /\ Hint(body) = was) => res.db.alerts = alerts

C5_Witness ==
    /\ response = Resp("user-location", 200, FALSE)
    /\ \E body \in LocationBodies :
          /\ WellFormed(body) /\ NonAdminEntity(body.userId.n)
          /\ Stored(user_locations, body.userId.n) = "true"
          /\ Hint(body) = "true"
          /\ Report(body).response.status = 200
          /\ Report(body).db.alerts = alerts
          /\ Report(body).db.user_locations # user_locations

\* C6: a report without a hint erases the comparison point.  Whatever is
\* stored, after an accepted report without a hint the next report of the
\* same entity creates no alert even when its hint is definite; and from no
\* Location State the reports true, false, null, true create one alert in
\* all, the exit of the second report.
C6_NoHintErasesComparison ==
    \A b1 \in LocationBodies :
        (WellFormed(b1) /\ NonAdminEntity(b1.userId.n) /\ Hint(b1) = "absent") =>
            LET s1 == Report(b1) IN
            /\ \A b2 \in [userId : {b1.userId}, latitude : LatitudeInputs,
                           longitude : LongitudeInputs, insideZone : InsideZoneInputs] :
                  (WellFormed(b2) /\ Hint(b2) # "absent") =>
                      LET s2 == PostUserLocation(s1.db, b2) IN
                      /\ s2.response = Resp("user-location", 200, FALSE)
                      /\ s2.db.alerts = alerts
            /\ ~HasState(user_locations, b1.userId.n) =>
                  LET with(h) == [b1 EXCEPT !.insideZone = h]
                      t1 == PostUserLocation(DB, with(Bool(TRUE)))
                      t2 == PostUserLocation(t1.db, with(Bool(FALSE)))
                      t3 == PostUserLocation(t2.db, b1)
                      t4 == PostUserLocation(t3.db, with(Bool(TRUE)))
                  IN  /\ t1.db.alerts = alerts
                      /\ OneAlertAdded(alerts, t2.db.alerts)
                      /\ AlertOf(t2.db.alerts[Len(t2.db.alerts)], b1, "exit")
                      /\ t3.db.alerts = t2.db.alerts
                      /\ t4.db.alerts = t2.db.alerts

\* The state after true, false, null: the exit alert is stored, the entity's
\* Location State is unknown, and a report with hint true is possible next.
C6_Witness ==
    /\ response = Resp("user-location", 200, FALSE)
    /\ \E l \in user_locations :
          /\ l.inside_zone = Null
          /\ alerts # <<>>
          /\ AlertOf(alerts[Len(alerts)],
                     [userId |-> Num(l.user_id), latitude |-> Num(10),
                      longitude |-> Num(20)], "exit")
          /\ \E b2 \in LocationBodies :
                /\ WellFormed(b2) /\ b2.userId.n = l.user_id /\ Hint(b2) = "true"
                /\ Report(b2).db.alerts = alerts

\* C7: a report for an admin entity changes neither the Location States nor
\* the alerts and answers success with ignored = true; a successful report
\* for a non-admin entity is never marked ignored.
C7_AdminIgnored ==
    \A body \in LocationBodies :
        LET res == Report(body)
            uid == body.userId.n
        IN  /\ (WellFormed(body) /\ AdminEntity(uid)) =>
                  /\ res.db.user_locations = user_locations
                  /\ res.db.alerts = alerts
                  /\ res.response.status = 200
                  /\ res.response.ignored
            /\ (res.response.status = 200 /\ ~AdminEntity(uid)) =>
                  ~res.response.ignored

\* An admin's report has just been answered while tracked entities have
\* Location States, none of them the admin's.
C7_Witness ==
    /\ response = Resp("user-location", 200, TRUE)
    /\ user_locations # {}
    /\ \A l \in user_locations : ~AdminEntity(l.user_id)

\* C8: no alert is ever stored for an admin entity, by whichever operation.
C8_NoAdminAlerts ==
    \A i \in DOMAIN alerts : ~AdminEntity(alerts[i].user_id)

\* C9: a report for a userId that matches no entity answers 404 and changes
\* no Location State and no alert.
C9_UnknownUserNotFound ==
    \A body \in LocationBodies :
        LET res == Report(body) IN
        (WellFormed(body) /\ ~Entity(body.userId.n)) =>
            /\ res.response = Resp("user-location", 404, FALSE)
            /\ res.db.user_locations = user_locations
            /\ res.db.alerts = alerts

\* A 404 has just been answered while Location States exist.
C9_Witness ==
    /\ response = Resp("user-location", 404, FALSE)
    /\ user_locations # {}

\* C10: a report whose latitude or longitude is missing or not a number
\* answers 400 and changes no Location State and no alert.
C10_BadCoordinatesRejected ==
    \A body \in CoordinateBodies :
        LET res == Report(body) IN
        (body.latitude.t # "number" \/ body.longitude.t # "number") =>
            /\ res.response = Resp("user-location", 400, FALSE)
            /\ res.db.user_locations = user_locations
            /\ res.db.alerts = alerts

\* A 400 has just been answered while an entity with a Location State could
\* send a report that is malformed only in its coordinates.
C10_Witness ==
    /\ response = Resp("user-location", 400, FALSE)
    /\ \E body \in LocationBodies :
          /\ HasState(user_locations, body.userId.n)
          /\ body.latitude = Str("10.5")
          /\ body.longitude = Num(20)
          /\ Hint(body) = "false"
          /\ Stored(user_locations, body.userId.n) = "true"

\* A number that JSON can carry but that is not finite.
NonFinite(v) == v.t = "number" /\ v.s # ""

\* C11: a report of a registered non-admin entity whose latitude or
\* longitude is a number but not finite is, when storage does not fail,
\* answered 400 without any write;
\* only finite coordinates reach the Location State.
C11_NonFiniteRejected ==
    /\ \A p \in Procs :
          LET c == calls[p] IN
          (/\ c.pc = "done" /\ c.failedAt = "none"
           /\ c.body.userId.t = "number" /\ NonAdminEntity(c.body.userId.n)
           /\ NonFinite(c.body.latitude) \/ NonFinite(c.body.longitude))
              => c.response.status = 400 /\ ~c.upserted /\ ~c.alerted
    /\ \A l \in user_locations : ~NonFinite(l.latitude) /\ ~NonFinite(l.longitude)

\* C12: a report whose userId is absent, zero or negative is answered 400,
\* neither 404 nor success, and writes nothing.
C12_BadUserIdRejected ==
    \A p \in Procs :
        LET c == calls[p] IN
        (/\ c.pc = "done"
         /\ c.body.userId = Undefined
               \/ (c.body.userId.t = "number" /\ c.body.userId.n <= 0)) =>
            /\ c.response.status = 400
            /\ ~c.upserted /\ ~c.alerted

\* The alert that the transition rule requires of a call, given the
\* previous state the call has read.
AlertRequired(c) ==
    /\ Hint(c.body) # "absent"
    /\ c.prevInside \in {Num(0), Num(1)}
    /\ c.prevInside # (IF Hint(c.body) = "true" THEN Num(1) ELSE Num(0))

\* C13: no partial write.  When a call has ended, with success or with a
\* storage failure, it has either written nothing, or upserted the
\* Location State and inserted the alert that the transition rule requires.
C13_NoPartialWrite ==
    \A p \in Procs :
        LET c == calls[p] IN
        (c.pc = "done" /\ ~NonFinite(c.body.latitude)) =>
            \/ ~c.upserted /\ ~c.alerted
            \/ c.upserted /\ (AlertRequired(c) => c.alerted)

\* The alerts of a table without their keys.
AlertFacts(alertTable) ==
    {[user_id |-> alertTable[i].user_id, alert_type |-> alertTable[i].alert_type,
      latitude |-> alertTable[i].latitude, longitude |-> alertTable[i].longitude]
        : i \in DOMAIN alertTable}

SameOutcome(db) ==
    /\ user_locations = db.user_locations
    /\ Len(alerts) = Len(db.alerts)
    /\ AlertFacts(alerts) = AlertFacts(db.alerts)

Serial(b1, b2) == PostUserLocation(PostUserLocation(db0, b1).db, b2).db

\* C14: two concurrent reports are serialized.  When both calls have ended
\* without a storage failure, the Location States and the alerts are those
\* of the two calls run one after the other, in one of the two orders.
C14_Serializable ==
    (\A p \in Procs : /\ calls[p].pc = "done"
                       /\ calls[p].failedAt = "none"
                       /\ ~NonFinite(calls[p].body.latitude)) =>
        \/ SameOutcome(Serial(calls["r1"].body, calls["r2"].body))
        \/ SameOutcome(Serial(calls["r2"].body, calls["r1"].body))

\* C16: one Location State per entity, last write wins.  No two rows share
\* a user_id, and right after an accepted report of a non-admin entity its
\* row holds that report's latitude, longitude and insideZone (unknown when
\* the hint is absent) while every other entity's row is as it was.
C16_LastWriteWins ==
    /\ \A l1, l2 \in user_locations : l1.user_id = l2.user_id => l1 = l2
    /\ \A body \in LocationBodies :
          LET res == Report(body)
              uid == body.userId.n
              mine == {l \in res.db.user_locations : l.user_id = uid}
          IN  (WellFormed(body) /\ NonAdminEntity(uid)) =>
                /\ mine = {[user_id |-> uid, latitude |-> body.latitude,
                            longitude |-> body.longitude,
                            inside_zone |-> IF Hint(body) = "true" THEN Num(1)
                                            ELSE IF Hint(body) = "false" THEN Num(0)
                                            ELSE Null]}
                /\ {l \in res.db.user_locations : l.user_id # uid}
                      = {l \in user_locations : l.user_id # uid}

\* Two entities have a Location State and the last report replaced one of
\* them; the other entity's next report would differ from what is stored.
C16_Witness ==
    /\ response = Resp("user-location", 200, FALSE)
    /\ \E l2, l3 \in user_locations :
          /\ l2.user_id = 2 /\ l3.user_id = 3
          /\ l2.latitude = Num(11) /\ l3.latitude = Num(10)
          /\ l2.inside_zone = Null /\ l3.inside_zone = Num(1)
    /\ alerts # <<>>

\* C18: every stored alert is of kind enter or exit; POST /api/alerts
\* answers 400 and inserts nothing when userId is missing or alertType is
\* missing or is not exactly "enter" or "exit".
C18_AlertKinds ==
    /\ \A i \in DOMAIN alerts : alerts[i].alert_type \in {"enter", "exit"}
    /\ \A body \in AlertBodies :
          LET res == PostAlerts(DB, body) IN
          /\ (body.userId = Undefined \/ body.alertType \notin {Str("enter"), Str("exit")}) =>
                /\ res.response = Resp("alerts", 400, FALSE)
                /\ res.db = DB
          /\ \A i \in DOMAIN res.db.alerts :
                res.db.alerts[i].alert_type \in {"enter", "exit"}
    /\ \A body \in LocationBodies :
          LET res == Report(body) IN
          \A i \in DOMAIN res.db.alerts :
              res.db.alerts[i].alert_type \in {"enter", "exit"}

\* POST /api/alerts has just refused a request while an alert is stored.
C18_Witness ==
    /\ response = Resp("alerts", 400, FALSE)
    /\ alerts # <<>>
    /\ \E body \in AlertBodies :
          body.userId = Num(2) /\ body.alertType = Str("other")

\* C19: a storage failure at any query of the handler ends the call with
\* status 500, never with success; the failing step and the catch block
\* write nothing, and a call that has ended takes no further step (no
\* retry, no compensating write).
C19_FailureSurfaced ==
    [][\A p \in Procs :
          /\ (calls[p].failedAt = "none" /\ calls'[p].failedAt # "none") =>
                /\ calls'[p].failedAt = calls[p].pc
                /\ calls'[p].pc = "done"
                /\ calls'[p].response.status = 500
                /\ UNCHANGED <<users, user_locations, alerts>>
          /\ calls[p].pc = "done" => calls'[p] = calls[p]
          /\ calls'[p].failedAt # "none" => calls'[p].response.status # 200]_vars

\* One call failed at the alert insert after its upsert, the other at the
\* role lookup; both were answered 500.
C19_Witness ==
    /\ calls["r1"].failedAt = "alert" /\ calls["r1"].upserted
    /\ calls["r1"].response.status = 500
    /\ calls["r2"].failedAt = "role"
    /\ calls["r2"].response.status = 500

----------------------------------------------------------------------------
(* The whole API: C15, C17, C20 *)

\* The alert appended by the step, when there is one.
NewAlert == alerts'[Len(alerts')]

\* The step's new alert records a change of the stored insideZone of its
\* user from one definite value to the other.
RecordsTransition ==
    \E before \in user_locations, after \in user_locations' :
        /\ before.user_id = NewAlert.user_id
        /\ after.user_id = NewAlert.user_id
        /\ before.inside_zone \in {Num(0), Num(1)}
        /\ after.inside_zone \in {Num(0), Num(1)}
        /\ before.inside_zone # after.inside_zone
        /\ NewAlert.alert_type = IF after.inside_zone = Num(1) THEN "enter" ELSE "exit"

\* C15: alerts are append-only.  Over every step of every API operation
\* (location report, explicit alert, user create/update/delete, the two
\* logins, alert listing) the stored alerts stay as they are, or exactly
\* one alert is appended; an alert is appended only by a location report
\* that detected a transition or by an accepted POST /api/alerts.
C15_AlertsAppendOnly ==
    [][/\ Len(alerts') \in {Len(alerts), Len(alerts) + 1}
       /\ SubSeq(alerts', 1, Len(alerts)) = alerts
       /\ Len(alerts') = Len(alerts) + 1 =>
             \/ response' = Resp("user-location", 200, FALSE) /\ RecordsTransition
             \/ response' = Resp("alerts", 200, FALSE)]_vars

\* A user was deleted after an alert was stored for that user, and the
\* alert is still there.
C15_Witness ==
    /\ response = Resp("users-delete", 200, FALSE)
    /\ alerts # <<>>
    /\ alerts[1].user_id = 2
    /\ \A u \in users : u.id # 2

\* C17: a Location State exists only for an entity for which a report was
\* accepted before (answered 200 without the ignored flag); user creation,
\* zone assignment, the two logins and explicit alert creation leave the
\* Location States as they are.
C17_LocationOnlyAfterReport ==
    /\ \A l \in user_locations : l.user_id \in everAccepted
    /\ \A body \in UserBodies, queryFails \in BOOLEAN :
          PostUsers(DB, users_auto_increment, body, queryFails).db.user_locations
              = user_locations
    /\ \A idStr \in {"0", "2", "4"}, body \in ZoneBodies :
          PutUser(DB, idStr, body, FALSE).db.user_locations = user_locations
    /\ \A body \in LoginBodies, failing \in Failing :
          /\ PostLogin(DB, body, failing).db.user_locations = user_locations
          /\ PostUserLogin(DB, loginAttempts, now, "unknown", body, failing)
                .db.user_locations = user_locations
    /\ \A body \in AlertBodies :
          PostAlerts(DB, body).db.user_locations = user_locations

\* User 4 was created and never reported; user 2 reported, was given a
\* zone and logged in; an alert is stored.  Only user 2 has a Location
\* State.
C17_Witness ==
    /\ \E u \in users : u.id = 4
    /\ \E u \in users : /\ u.id = 2
                        /\ u.zone_center_lat = Num(10)
                        /\ looksHashed(u.password_hash)
    /\ alerts # <<>>
    /\ {l.user_id : l \in user_locations} = {2}
    /\ everAccepted = {2}

AdminIds(userTable) == {u.id : u \in {x \in userTable : x.role = "admin"}}

\* The row without the given columns.
Except(row, columns) == [f \in DOMAIN row \ columns |-> row[f]]

\* C20: no API operation creates an admin or changes a role.  Over every
\* step: every row that stays keeps its role, a new row has role user, the
\* set of admins changes only by a DELETE; POST /api/users adds a user row
\* whatever the body says, PUT changes zone columns only and the logins
\* change password_hash only.
C20_NoNewAdmin ==
    [][/\ \A after \in users' :
             \/ \E before \in users : before.id = after.id /\ before.role = after.role
             \/ (\A before \in users : before.id # after.id) /\ after.role = "user"
       /\ AdminIds(users') \subseteq AdminIds(users)
       /\ AdminIds(users') # AdminIds(users) => response' = Resp("users-delete", 200, FALSE)
       /\ response'.op = "users-post" =>
             /\ users \subseteq users'
             /\ \A after \in users' \ users : after.role = "user"
       /\ response'.op = "users-put" =>
             {Except(u, ZoneFields) : u \in users'} = {Except(u, ZoneFields) : u \in users}
       /\ response'.op \in {"login", "user-login"} =>
             {Except(u, {"password_hash"}) : u \in users'}
                 = {Except(u, {"password_hash"}) : u \in users}]_vars

\* The only admin was deleted; user 4 was created by a request that asked
\* for role admin or not, and is a user; user 2 has a zone and a migrated
\* password.
C20_Witness ==
    /\ AdminIds(users) = {}
    /\ \E u \in users : u.id = 4 /\ u.role = "user"
    /\ \E u \in users : /\ u.id = 2
                        /\ u.zone_center_lat = Num(10)
                        /\ looksHashed(u.password_hash)

----------------------------------------------------------------------------
(* PUT /api/users/:id : C21 *)

\* Every combination of absent, null and numeric zone fields.
AnyZoneBodies ==
    [zone_center_lat : {Undefined, Null, Num(11)},
     zone_center_lng : {Undefined, Null, Num(21)},
     zone_radius_m   : {Undefined, Null, Num(100)}]

\* Path parameters: not a number, zero, negative, not finite, and ids of
\* an existing admin, existing users and of no user.
AnyIdStrings == {"abc", "0", "-1", "Infinity", "1", "2", "4", "9"}

FinitePositive(idStr) ==
    ToNumber(idStr).t = "number" /\ ToNumber(idStr).s = "" /\ ToNumber(idStr).n > 0

\* C21: PUT /api/users/:id sets, for the one user of that id, each zone
\* field of the body that is not undefined (null clears it) and keeps each
\* zone field that is undefined; username, password_hash and role, every
\* other user, every Location State and the alerts stay as they are.  A
\* body without any zone field, or an id that is not a finite positive
\* number, is answered 400 and nothing is written.
C21_PutWritesZoneOnly ==
    \A idStr \in AnyIdStrings, body \in AnyZoneBodies :
        LET res == PutUser(DB, idStr, body, FALSE) IN
        IF ~FinitePositive(idStr) \/ (\A f \in ZoneFields : body[f] = Undefined)
        THEN res.response.status = 400 /\ res.db = DB
        ELSE
            /\ res.response.status = 200
            /\ res.db.user_locations = user_locations
            /\ res.db.alerts = alerts
            /\ {u.id : u \in res.db.users} = {u.id : u \in users}
            /\ \A before \in users, after \in res.db.users :
                  before.id = after.id =>
                      IF before.id = ToNumber(idStr).n
                      THEN /\ Except(after, ZoneFields) = Except(before, ZoneFields)
                           /\ \A f \in ZoneFields :
                                 after[f] = IF body[f] = Undefined THEN before[f]
                                            ELSE body[f]
                      ELSE after = before

\* A zone was just assigned to user 2, who has a definite stored insideZone
\* and an alert, and a migrated password.
C21_Witness ==
    /\ response = Resp("users-put", 200, FALSE)
    /\ \E u \in users : /\ u.id = 2
                        /\ u.zone_center_lat = Num(10)
                        /\ looksHashed(u.password_hash)
    /\ \E l \in user_locations : l.user_id = 2 /\ l.inside_zone = Num(1)
    /\ alerts # <<>>

----------------------------------------------------------------------------
(* GET /api/alerts : C22 *)

\* Values of the userId query parameter that a request can carry: ids of
\* users, a padded id, a non-numeric string and the empty string.
AnyUserIdParams == {Str("2"), Str("4"), Str(" 2 "), Str("abc"), Str("")}

\* C22: GET /api/alerts with a userId parameter returns only alerts whose
\* user_id equals the parameter, whatever the parameter's value: no row of
\* another user is returned, also for a non-numeric or empty value.
C22_OnlyThatUser ==
    \A userIdParam \in AnyUserIdParams :
        LET res == GetAlerts(DB, userIdParam, FALSE) IN
        \A i \in DOMAIN res.rows :
            /\ NumberIsFinite(ToNumber(userIdParam.s))
            /\ userIdParam.s # ""
            /\ res.rows[i].user_id = ToNumber(userIdParam.s).n

----------------------------------------------------------------------------
(* The two logins : C23 *)

\* Credentials of the admin, of two users (one legacy, one hashed), of
\* nobody, padded ones, and a stored hash sent as the password.
AnyLoginBodies ==
    [username : {Str("admin"), Str("user2"), Str(" user2 "), Str("user3"), Str("ghost")},
     password : {Str("adminpw"), Str("pass2"), Str(" pass2 "), Str("pass3"),
                 bcryptHash(Str("pass3"))}]

\* The password verifies against the stored value: equal to a legacy
\* plain-text value, or accepted by bcrypt for a hash.
Verifies(password, stored) ==
    IF looksHashed(stored) THEN bcryptCompare(password, stored)
    ELSE stored = password

\* C23: the logins are separated by role.  POST /api/login answers success
\* only if the username is that of an admin whose stored value the password
\* verifies against; POST /api/user-login answers success only if the
\* username is that of an entity of role user; neither changes a Location
\* State or an alert.
C23_RoleSeparated ==
    \A body \in AnyLoginBodies, failing \in Failing :
        LET adminRes == PostLogin(DB, body, failing)
            userRes  == PostUserLogin(DB, loginAttempts, now, "unknown", body, failing)
            name     == trim(body.username).s
        IN
        /\ adminRes.response.status = 200 =>
              \E u \in users : /\ u.username = name
                               /\ u.role = "admin"
                               /\ Verifies(trim(body.password), u.password_hash)
        /\ userRes.response.status = 200 =>
              /\ \E u \in users : u.username = name /\ u.role = "user"
              /\ \A u \in users : u.username = name => u.role # "admin"
        /\ adminRes.db.user_locations = user_locations
        /\ adminRes.db.alerts = alerts
        /\ userRes.db.user_locations = user_locations
        /\ userRes.db.alerts = alerts

\* The admin has just logged in; before that user 2 logged in through
\* /api/user-login (both passwords are migrated) while a Location State and
\* an alert are stored.
C23_Witness ==
    /\ response = Resp("login", 200, FALSE)
    /\ \E u \in users : u.id = 1 /\ u.role = "admin" /\ looksHashed(u.password_hash)
    /\ \E u \in users : u.id = 2 /\ u.role = "user" /\ looksHashed(u.password_hash)
    /\ user_locations # {}
    /\ alerts # <<>>

----------------------------------------------------------------------------
(* Legacy password migration : C24 *)

\* Passwords of a later login: the plain-text passwords and the bcrypt
\* hashes that the migration stores.
LaterPasswords ==
    {Str("adminpw"), Str("pass2"), Str("pass3"),
     bcryptHash(Str("adminpw")), bcryptHash(Str("pass2"))}

Credentials(u, password) == [username |-> Str(u.username), password |-> password]

StoredAfter(db, u) == (CHOOSE x \in db.users : x.id = u.id).password_hash

\* C24: the migration preserves the credential.  For every entity with a
\* legacy plain-text value, a login with that value succeeds and, when the
\* migration write succeeds, stores the bcrypt hash of the same password;
\* a later login then succeeds with the same password and fails with every
\* other one.  In POST /api/login a failing migration write leaves the
\* login a success.
C24_MigrationPreserves ==
    \A u \in users :
        ~looksHashed(u.password_hash) =>
            LET legacy == u.password_hash IN
            IF u.role = "admin"
            THEN LET first == PostLogin(DB, Credentials(u, legacy), "none") IN
                 /\ first.response.status = 200
                 /\ StoredAfter(first.db, u) = bcryptHash(legacy)
                 /\ \A later \in LaterPasswords :
                       (PostLogin(first.db, Credentials(u, later), "none")
                            .response.status = 200) <=> (later = legacy)
                 /\ PostLogin(DB, Credentials(u, legacy), "update").response.status = 200
            ELSE LET first == PostUserLogin(DB, loginAttempts, now, "unknown",
                                            Credentials(u, legacy), "none") IN
                 /\ first.response.status = 200
                 /\ StoredAfter(first.db, u) = bcryptHash(legacy)
                 /\ \A later \in LaterPasswords :
                       (PostUserLogin(first.db, first.attempts, now, "unknown",
                                      Credentials(u, later), "none")
                            .response.status = 200) <=> (later = legacy)

----------------------------------------------------------------------------
(* POST /api/user-login against a stored hash : C29 *)

\* C29: when a user's stored password_hash is a bcrypt hash, POST
\* /api/user-login succeeds only if bcrypt.compare accepts the password;
\* the stored hash string sent as the password does not authenticate and
\* password_hash is not rewritten.
C29_HashIsNotAPassword ==
    \A u \in users :
        (u.role = "user" /\ looksHashed(u.password_hash)) =>
            \A password \in LaterPasswords \cup {u.password_hash} :
                LET res == PostUserLogin(DB, loginAttempts, now, "unknown",
                                         Credentials(u, password), "none")
                IN  /\ res.response.status = 200 =>
                          bcryptCompare(password, u.password_hash)
                    /\ password = u.password_hash =>
                          /\ res.response.status # 200
                          /\ res.db.users = users

----------------------------------------------------------------------------
(* The dashboard in the browser, against the API: the login page, the auth
   guard, logging out, the alert bell's polling and Clear. *)

\* The clock and the alerts table are capped so that the state space is finite.
MaxNow == 2
MaxDashboardAlerts == 2

DashboardAlertBodies ==
    {[userId |-> Num(2), alertType |-> Str("enter"),
      latitude |-> Undefined, longitude |-> Undefined]}

DashboardLoginBodies ==
    [username : {Str("admin")}, password : {Str("adminpw"), Str("pass2")}]

Tick ==
    /\ now < MaxNow
    /\ now' = now + 1
    /\ UNCHANGED <<users, user_locations, alerts, response, calls, db0,
                   users_auto_increment, loginAttempts, everAccepted, browser,
                   attemptLog>>

\* A device reports a transition: the alert row gets the server's time.
AlertOccurs ==
    /\ Len(alerts) < MaxDashboardAlerts
    /\ \E body \in DashboardAlertBodies :
          LET res == PostAlerts(DB, body) IN
          /\ alerts' = Stamped(res.db.alerts, now)
          /\ response' = res.response
    /\ UNCHANGED <<users, user_locations, calls, db0, serverVars, everAccepted, attemptLog, browser>>

\* The page at url is loaded: what was in flight is gone with the old page.
PageLoad(url) ==
    /\ browser' = [(IF url = "/dashboard"
                    THEN Mounted(browser)
                    ELSE [Unmounted(browser) EXCEPT !.page = "/"])
                   EXCEPT !.login = IdleRequest, !.logout = IdleRequest]
    /\ UNCHANGED <<users, user_locations, alerts, response, calls, db0,
                   serverVars, everAccepted, attemptLog>>

\* The auth guard effect of the dashboard.
AuthGuard ==
    /\ browser.mounting
    /\ LET isAuthed == browser.adminAuth = Str("true") IN
       browser' = IF ~isAuthed
                  THEN [Unmounted(browser) EXCEPT !.page = "/"]
                  ELSE [browser EXCEPT !.mounting = FALSE]
    /\ UNCHANGED <<users, user_locations, alerts, response, calls, db0,
                   serverVars, everAccepted, attemptLog>>

\* handleSubmit of the login page, up to the fetch.
LoginSubmit ==
    /\ browser.page = "/"
    /\ browser.login.pc = "idle"
    /\ \E body \in DashboardLoginBodies :
          browser' = [browser EXCEPT !.login = [pc |-> "sent", status |-> 0,
                                                 data |-> body]]
    /\ UNCHANGED <<users, user_locations, alerts, response, calls, db0,
                   serverVars, everAccepted, attemptLog>>

\* POST /api/login is served, or the request fails on the network.
LoginAnswer ==
    /\ browser.login.pc = "sent"
    /\ \E failing \in {"none", "select", "network"} :
          IF failing = "network"
          THEN /\ browser' = [browser EXCEPT !.login.pc = "answered",
                                             !.login.status = 0]
               /\ UNCHANGED <<users, response>>
          ELSE LET res == PostLogin(DB, browser.login.data, failing) IN
               /\ users' = res.db.users
               /\ response' = res.response
               /\ browser' = [browser EXCEPT !.login.pc = "answered",
                                             !.login.status = res.response.status]
    /\ UNCHANGED <<user_locations, alerts, calls, db0, serverVars, everAccepted, attemptLog>>

\* handleSubmit after the fetch: the flag is set and the dashboard opened,
\* or an error is shown.
LoginFinish ==
    /\ browser.login.pc = "answered"
    /\ browser' = IF LoginAccepted(browser.login.status)
                  THEN [Mounted(browser) EXCEPT !.adminAuth = Str("true"),
                                                !.login = IdleRequest]
                  ELSE [browser EXCEPT !.login = IdleRequest]
    /\ UNCHANGED <<users, user_locations, alerts, response, calls, db0,
                   serverVars, everAccepted, attemptLog>>

\* handleLogout, up to the fetch.
LogoutClick ==
    /\ browser.page = "/dashboard"
    /\ ~browser.mounting
    /\ browser.logout.pc = "idle"
    /\ browser' = [browser EXCEPT !.logout.pc = "sent"]
    /\ UNCHANGED <<users, user_locations, alerts, response, calls, db0,
                   serverVars, everAccepted, attemptLog>>

\* POST /api/logout answers 200, or 500 from its catch block, or the request
\* fails on the network (status 0) and fetch throws.
LogoutAnswer ==
    /\ browser.logout.pc = "sent"
    /\ \E status \in {200, 500, 0} :
          browser' = [browser EXCEPT !.logout.pc = "answered",
                                     !.logout.status = status]
    /\ UNCHANGED <<users, user_locations, alerts, response, calls, db0,
                   serverVars, everAccepted, attemptLog>>

\* handleLogout after the try block, whether fetch threw or not.
LogoutFinish ==
    /\ browser.logout.pc = "answered"
    /\ browser' = [Unmounted(browser) EXCEPT !.adminAuth = Null, !.page = "/",
                                             !.logout = IdleRequest]
    /\ UNCHANGED <<users, user_locations, alerts, response, calls, db0,
                   serverVars, everAccepted, attemptLog>>

\* fetchAlerts, up to the fetch.
PollSend(p) ==
    /\ browser.page = "/dashboard"
    /\ browser.polls[p].pc = "idle"
    /\ browser' = [browser EXCEPT !.polls[p].pc = "sent"]
    /\ UNCHANGED <<users, user_locations, alerts, response, calls, db0,
                   serverVars, everAccepted, attemptLog>>

\* GET /api/alerts is served.
PollAnswer(p) ==
    /\ browser.polls[p].pc = "sent"
    /\ \E queryFails \in BOOLEAN :
          LET res == GetAlerts(DB, Null, queryFails) IN
          /\ response' = res.response
          /\ browser' = [browser EXCEPT !.polls[p] =
                [pc |-> "answered", status |-> res.response.status,
                 data |-> AlertsJson(res.rows)]]
    /\ UNCHANGED <<users, user_locations, alerts, calls, db0, serverVars, everAccepted, attemptLog>>

\* fetchAlerts after the fetch: the filter reads localStorage now.
PollFinish(p) ==
    /\ browser.polls[p].pc = "answered"
    /\ LET poll == browser.polls[p] IN
       browser' = IF poll.status # 200
                  THEN [browser EXCEPT !.polls[p] = IdleRequest]
                  ELSE [browser EXCEPT
                           !.polls[p] = IdleRequest,
                           !.alerts = slice(sorted(Filtered(poll.data,
                                                            browser.clearedUntil)))]
    /\ UNCHANGED <<users, user_locations, alerts, response, calls, db0,
                   serverVars, everAccepted, attemptLog>>

\* handleClearAlerts
ClearAlerts ==
    /\ browser.page = "/dashboard"
    /\ ~browser.mounting
    /\ browser' = [browser EXCEPT !.clearedUntil = toISOString(now),
                                  !.alerts = <<>>]
    /\ UNCHANGED <<users, user_locations, alerts, response, calls, db0,
                   serverVars, everAccepted, attemptLog>>

NextDashboard ==
    \/ Tick
    \/ AlertOccurs
    \/ \E url \in {"/", "/dashboard"} : PageLoad(url)
    \/ AuthGuard
    \/ LoginSubmit
    \/ LoginAnswer
    \/ LoginFinish
    \/ LogoutClick
    \/ LogoutAnswer
    \/ LogoutFinish
    \/ \E p \in PollSlots : PollSend(p)
    \/ \E p \in PollSlots : PollAnswer(p)
    \/ \E p \in PollSlots : PollFinish(p)
    \/ ClearAlerts

SpecDashboard == Init /\ [][NextDashboard]_vars

----------------------------------------------------------------------------
(* C25 *)

\* The time stored by the last Clear, if any.
Cleared == browser.clearedUntil # Null
ClearedAt == browser.clearedUntil.iso

\* C25: clearing the alerts is persistent.  Once Clear has stored its time T
\* in localStorage, every alert in the displayed list occurred strictly
\* after T: in every reachable state, so after every poll that finishes
\* later, whether it was sent before or after the Clear, in this page load
\* or a later one (the clock never goes back, so the last T is the largest).
C25_ClearIsPersistent ==
    Cleared =>
        \A i \in DOMAIN browser.alerts :
            browser.alerts[i].occurred_at.iso > ClearedAt

\* A poll has put an alert back after a Clear at T, while the table holds an
\* alert that occurred at or before T.
C25_Witness ==
    /\ Cleared
    /\ browser.alerts # <<>>
    /\ \E i \in DOMAIN alerts : alerts[i].occurred_at <= ClearedAt

----------------------------------------------------------------------------
(* C26 *)

Authed(b) == b.adminAuth = Str("true")

\* C26: the admin flag follows login and logout.  Over every step: adminAuth
\* becomes "true" only in handleSubmit after POST /api/login answered 200
\* (success: true); handleLogout's end removes it, whatever /api/logout
\* answered, and leaves the dashboard; the auth guard sends a dashboard
\* mounted without the flag to /; so the dashboard stays open, its guard
\* passed, only while the flag is "true".
C26_AuthFlagFollowsLogin ==
    [][/\ (Authed(browser') /\ ~Authed(browser)) =>
              /\ LoginFinish
              /\ browser.login.pc = "answered"
              /\ browser.login.status = 200
       /\ LogoutFinish => (~Authed(browser') /\ browser'.page = "/")
       /\ (AuthGuard /\ ~Authed(browser)) => browser'.page = "/"
       /\ (browser'.page = "/dashboard" /\ ~browser'.mounting) => Authed(browser')
      ]_vars

\* The admin is logged in and logging out, and /api/logout has failed.
C26_Witness ==
    /\ Authed(browser)
    /\ browser.logout.pc = "answered"
    /\ browser.logout.status # 200

----------------------------------------------------------------------------
(* The rate limiter of POST /api/user-login over time *)

\* The clock advances by half a window, up to MaxHalfWindows times; a key is
\* tried until its count is MaxOverLimit over MAX_ATTEMPTS.
MaxHalfWindows == 10
MaxOverLimit == 1

LimiterBodies ==
    [username : {Str("user2")}, password : {Str("adminpw")}]

TimePasses ==
    /\ now < MaxHalfWindows * (WINDOW_MS \div 2)
    /\ now' = now + WINDOW_MS \div 2
    /\ UNCHANGED <<users, user_locations, alerts, response, calls, db0,
                   users_auto_increment, loginAttempts, everAccepted, browser,
                   attemptLog>>

LimitedLogin == UserLoginFrom(LimiterBodies, {"none"}, MAX_ATTEMPTS + MaxOverLimit)

NextLimiter ==
    \/ TimePasses
    \/ LimitedLogin

SpecLimiter == Init /\ [][NextLimiter]_vars

----------------------------------------------------------------------------
(* C27 *)

ThisKey == RateKey("unknown", Str("user2"))
OtherKey == RateKey("10.0.0.1", Str("user2"))

\* The Map of a reachable state, alone or with an entry of another key.
AnyAttempts ==
    {loginAttempts} \cup
    {loginAttempts @@ (OtherKey :> info) :
        info \in {[count |-> 3, lastAttempt |-> 0],
                  [count |-> MAX_ATTEMPTS, lastAttempt |-> now],
                  [count |-> MAX_ATTEMPTS + 1, lastAttempt |-> now]}}

\* The time of the next attempt: at once, a window later, just over a window later.
AnyLaterTimes == {now, now + WINDOW_MS, now + WINDOW_MS + 1}

AnyUserLoginBodies ==
    [username : {Str("user2"), Str(" user2 ")},
     password : {Str("pass2"), Str("adminpw")}]

\* C27: isRateLimited(key) answers false and sets the count to 1 on the
\* first attempt of a key and on an attempt more than WINDOW_MS after the
\* previous one; otherwise it increments the count and answers true exactly
\* when the count is then above 10.  The entries of the other keys are left
\* as they were.  A rate-limited POST /api/user-login answers 429 and leaves
\* the tables as they were, whether or not a query would have failed.
C27_LimiterCounts ==
    \A attempts \in AnyAttempts, t \in AnyLaterTimes :
        /\ \A key \in {ThisKey, OtherKey} :
              LET was == key \in DOMAIN attempts
                  r == isRateLimited(attempts, key, t)
              IN
              /\ IF ~was \/ (was /\ t - attempts[key].lastAttempt > WINDOW_MS)
                 THEN ~r.limited /\ r.attempts[key].count = 1
                 ELSE /\ r.attempts[key].count = attempts[key].count + 1
                      /\ r.limited <=> r.attempts[key].count > 10
              /\ DOMAIN r.attempts = DOMAIN attempts \cup {key}
              /\ \A k \in DOMAIN attempts \ {key} : r.attempts[k] = attempts[k]
        /\ \A ip \in {"unknown", "10.0.0.1"}, body \in AnyUserLoginBodies,
              failing \in Failing :
              LET key == RateKey(ip, trim(body.username))
                  res == PostUserLogin(DB, attempts, t, ip, body, failing)
              IN
              isRateLimited(attempts, key, t).limited =>
                  /\ res.response = Resp("user-login", 429, FALSE)
                  /\ res.db = DB

\* The eleventh attempt of a key within a window has been answered 429.
C27_Witness ==
    /\ response = Resp("user-login", 429, FALSE)
    /\ ThisKey \in DOMAIN loginAttempts
    /\ loginAttempts[ThisKey].count > MAX_ATTEMPTS

----------------------------------------------------------------------------
(* C28 *)

\* The keys whose attempt this step has logged.
Attempted(k) ==
    /\ k \in DOMAIN attemptLog'
    /\ k \notin DOMAIN attemptLog \/ attemptLog'[k] # attemptLog[k]

\* C28: the rate limit is per time window.  Over every step: a user-login
\* request is answered 429 only if more than MAX_ATTEMPTS attempts of its
\* key, itself included, were made in the WINDOW_MS up to it.
C28_PerWindow ==
    [][(response' = Resp("user-login", 429, FALSE) /\ attemptLog' # attemptLog) =>
          \A k \in DOMAIN attemptLog' :
              Attempted(k) => Len(attemptLog'[k]) > MAX_ATTEMPTS
      ]_vars

----------------------------------------------------------------------------
(* C30 *)

\* The Location State row of an entity in a table, as a set.
LocationOf(locTable, uid) == {l \in locTable : l.user_id = uid}

\* C30: repeating a successful report is idempotent.  In every reachable
\* state and for every request answered 200, the same request made again at
\* once is answered the same, creates no alert, and leaves every Location
\* State, that entity's latitude, longitude and insideZone included, as the
\* first call left it.
C30_RepeatIsIdempotent ==
    \A body \in LocationBodies :
        LET first  == Report(body)
            second == PostUserLocation(first.db, body)
        IN
        first.response.status = 200 =>
            /\ second.response = first.response
            /\ second.db.alerts = first.db.alerts
            /\ second.db.user_locations = first.db.user_locations
            /\ LocationOf(second.db.user_locations, body.userId.n)
                  = LocationOf(first.db.user_locations, body.userId.n)

\* A report that recorded a transition has been accepted, and the same
\* request made again is accepted too.
C30_Witness ==
    /\ alerts # <<>>
    /\ \E body \in LocationBodies :
          /\ Hint(body) # "absent"
          /\ Hint(body) = Stored(user_locations, body.userId.n)
          /\ \E l \in user_locations :
                /\ l.user_id = body.userId.n
                /\ l.latitude = body.latitude
                /\ l.longitude = body.longitude
          /\ alerts[Len(alerts)].user_id = body.userId.n
          /\ alerts[Len(alerts)].alert_type = alertType(insideVal(body.insideZone))
          /\ Report(body).response = Resp("user-location", 200, FALSE)

====
